---- MODULE Spec2Model ----
(***************************************************************************)
(* Variable elimination over discrete Bayesian networks: the factor        *)
(* algebra of factor.py (Factor.__getitem__, multiply_factors,             *)
(* marginalize) and the elimination / query engine of bayes.py             *)
(* (BayesianNetwork, eliminate, compute_marginal, compute_conditional).    *)
(*                                                                         *)
(* A Factor is a record [variables, values]: variables is the ordered      *)
(* scope, values a function whose DOMAIN is the set of key tuples of the   *)
(* Python dict.  A call that raises is a result record whose err field is  *)
(* not NoErr.  Table values are non-negative integers; when numeric is     *)
(* "float" every sum and product is rounded to MantBits significant bits   *)
(* (round-half-to-even), which is the arithmetic of Python floats with a   *)
(* shorter significand.                                                    *)
(***************************************************************************)
EXTENDS Integers, Sequences, FiniteSets, TLC

VARIABLES numeric, bnet, pc, op, cur, order, ret

vars == <<numeric, bnet, pc, op, cur, order, ret>>

\* ------------------------------------------------------------------ bounds
MaxVal == 2
MantBits == 2

\* ------------------------------------------------------- small helpers
Range(s) == {s[i] : i \in 1..Len(s)}

NoErr == "none"

\* the last position of v in a scope (a dict assignment keyed by name keeps the last)
IndexOf(s, v) == CHOOSE i \in 1..Len(s) : s[i] = v /\ \A j \in (i+1)..Len(s) : s[j] # v

\* ------------------------------------------------------------ arithmetic
RECURSIVE Pow2(_)
Pow2(n) == IF n = 0 THEN 1 ELSE 2 * Pow2(n - 1)

RECURSIVE UlpFrom(_, _)
UlpFrom(x, u) == IF x < Pow2(MantBits) * u THEN u ELSE UlpFrom(x, 2 * u)

\* round-half-to-even to MantBits significant bits
Round(x) ==
  LET u == UlpFrom(x, 1)
      q == x \div u
      r == x % u
  IN  IF 2 * r < u THEN q * u
      ELSE IF 2 * r > u THEN (q + 1) * u
      ELSE IF q % 2 = 0 THEN q * u ELSE (q + 1) * u

\* sumVal = value
AddOverwrites(a, b) == b

\* sumVal += value
Add(a, b) == IF numeric = "float" THEN Round(a + b) ELSE a + b

\* prodVal *= val
Mul(a, b) == IF numeric = "float" THEN Round(a * b) ELSE a * b

\* ---------------------------------------------------------------- Factor
Factor(variables, values) == [variables |-> variables, values |-> values]

NoFactor == Factor(<<>>, [k \in {} |-> 0])

Raise(e, dummy) == [err |-> e, val |-> dummy]

Return(v) == [err |-> NoErr, val |-> v]

\* a lookup that reads a missing key as zero
GetItemDefaultsToZero(factor, event) ==
  LET key == [i \in 1..Len(factor.variables) |-> event[factor.variables[i]]]
  IN  IF key \in DOMAIN factor.values THEN Return(factor.values[key]) ELSE Return(0)

\* Factor.__getitem__
GetItem(factor, event) ==
  IF \E i \in 1..Len(factor.variables) : factor.variables[i] \notin DOMAIN event
  THEN Raise("KeyError", 0)
  ELSE LET key == [i \in 1..Len(factor.variables) |-> event[factor.variables[i]]]
       IN  IF key \in DOMAIN factor.values
           THEN Return(factor.values[key])
           ELSE Raise("KeyError", 0)

\* itertools.product(*lists), as the set of the tuples it yields
RECURSIVE Product(_)
Product(sets) ==
  IF sets = <<>> THEN {<<>>}
  ELSE {<<x>> \o t : x \in Head(sets), t \in Product(Tail(sets))}

\* ------------------------------------------------------------ marginalize
\* seenValues reset for every key tuple: only one key's value is left
PossibleValuesOfOneKey(factor) ==
  [v \in Range(factor.variables) |->
     {k[IndexOf(factor.variables, v)] :
        k \in {j \in DOMAIN factor.values : j = CHOOSE m \in DOMAIN factor.values : TRUE}}]

\* the seenValues of every scope variable
PossibleValues(factor) ==
  [v \in Range(factor.variables) |->
     {k[IndexOf(factor.variables, v)] : k \in DOMAIN factor.values}]

\* the inner loop over possibleValues[variable]; a Python set is iterated in an
\* order the code does not control, CHOOSE fixes one
RECURSIVE SumOver(_, _, _, _, _)
SumOver(factor, newEvent, variable, vals, sumVal) ==
  IF vals = {} THEN Return(sumVal)
  ELSE LET val == CHOOSE x \in vals : TRUE
           fullEvent == [k \in DOMAIN newEvent \cup {variable} |->
                           IF k = variable THEN val ELSE newEvent[k]]
           value == GetItem(factor, fullEvent)
       IN  IF value.err # NoErr THEN value
           ELSE SumOver(factor, newEvent, variable, vals \ {val}, Add(sumVal, value.val))

marginalize(factor, variable) ==
  LET newVars == SelectSeq(factor.variables, LAMBDA v : v # variable)
      possibleValues == PossibleValues(factor)
      valueLists == [i \in 1..Len(newVars) |-> possibleValues[newVars[i]]]
      combos == Product(valueLists)
      newEvent(combo) == [v \in Range(newVars) |-> combo[IndexOf(newVars, v)]]
      cells == [combo \in combos |->
                  IF variable \notin DOMAIN possibleValues
                  THEN Raise("KeyError: possibleValues", 0)
                  ELSE SumOver(factor, newEvent(combo), variable,
                               possibleValues[variable], 0)]
  IN  IF \E c \in combos : cells[c].err # NoErr
      THEN Raise("KeyError", NoFactor)
      ELSE Return(Factor(newVars, [c \in combos |-> cells[c].val]))

\* ------------------------------------------------------- multiply_factors
\* the scope loop without the test of line 84
AppendAll(allVars, scope) == allVars \o scope

RECURSIVE AppendNew(_, _)
AppendNew(allVars, scope) ==
  IF scope = <<>> THEN allVars
  ELSE AppendNew(IF Head(scope) \in Range(allVars) THEN allVars
                 ELSE Append(allVars, Head(scope)),
                 Tail(scope))

RECURSIVE UnionScope(_, _)
UnionScope(allVars, factors) ==
  IF factors = <<>> THEN allVars
  ELSE UnionScope(AppendNew(allVars, Head(factors).variables), Tail(factors))

RECURSIVE ProdVal(_, _, _)
ProdVal(factors, newEvent, prodVal) ==
  IF factors = <<>> THEN Return(prodVal)
  ELSE LET factor == Head(factors)
           partialEvent == [v \in Range(factor.variables) |-> newEvent[v]]
           val == GetItem(factor, partialEvent)
       IN  IF val.err # NoErr THEN val
           ELSE ProdVal(Tail(factors), newEvent, Mul(prodVal, val.val))

multiply_factors(factors, domains) ==
  LET allVars == UnionScope(<<>>, factors)
  IN  IF \E i \in 1..Len(allVars) : allVars[i] \notin DOMAIN domains
      THEN Raise("KeyError", NoFactor)
      ELSE LET values == [i \in 1..Len(allVars) |-> Range(domains[allVars[i]])]
               combos == Product(values)
               newEvent(combo) == [v \in Range(allVars) |-> combo[IndexOf(allVars, v)]]
               cells == [combo \in combos |-> ProdVal(factors, newEvent(combo), 1)]
           IN  IF \E c \in combos : cells[c].err # NoErr
               THEN Raise("KeyError", NoFactor)
               ELSE Return(Factor(allVars, [c \in combos |-> cells[c].val]))

\* -------------------------------------------------------- BayesianNetwork
RECURSIVE ScopeUnion(_, _)
ScopeUnion(variables, factors) ==
  IF factors = <<>> THEN variables
  ELSE ScopeUnion(variables \cup Range(Head(factors).variables), Tail(factors))

\* BayesianNetwork.__init__
BayesianNetwork(factors, domains) ==
  [factors |-> factors, domains |-> domains, variables |-> ScopeUnion({}, factors)]

NoNetwork == BayesianNetwork(<<>>, <<>>)

\* -------------------------------------------------------------- eliminate
\* the partition loop inserting at the front of factorsWithoutVar
RECURSIVE PartitionInsertsFirst(_, _, _, _)
PartitionInsertsFirst(factors, variable, factorsWithVar, factorsWithoutVar) ==
  IF factors = <<>> THEN <<factorsWithVar, factorsWithoutVar>>
  ELSE IF variable \in Range(Head(factors).variables)
       THEN PartitionInsertsFirst(Tail(factors), variable,
                                  Append(factorsWithVar, Head(factors)), factorsWithoutVar)
       ELSE PartitionInsertsFirst(Tail(factors), variable,
                                  factorsWithVar, <<Head(factors)>> \o factorsWithoutVar)

\* the partition loop leaving the loop at the first factor with the variable
RECURSIVE PartitionStopsAtFirst(_, _, _, _)
PartitionStopsAtFirst(factors, variable, factorsWithVar, factorsWithoutVar) ==
  IF factors = <<>> THEN <<factorsWithVar, factorsWithoutVar>>
  ELSE IF variable \in Range(Head(factors).variables) /\ factorsWithVar = <<>>
       THEN PartitionStopsAtFirst(Tail(factors), variable,
                                  Append(factorsWithVar, Head(factors)), factorsWithoutVar)
       ELSE PartitionStopsAtFirst(Tail(factors), variable,
                                  factorsWithVar, Append(factorsWithoutVar, Head(factors)))

\* the partition loop: <<factorsWithVar, factorsWithoutVar>>
RECURSIVE Partition(_, _, _, _)
Partition(factors, variable, factorsWithVar, factorsWithoutVar) ==
  IF factors = <<>> THEN <<factorsWithVar, factorsWithoutVar>>
  ELSE IF variable \in Range(Head(factors).variables)
       THEN Partition(Tail(factors), variable,
                      Append(factorsWithVar, Head(factors)), factorsWithoutVar)
       ELSE Partition(Tail(factors), variable,
                      factorsWithVar, Append(factorsWithoutVar, Head(factors)))

\* eliminate that appends the product without summing the variable out
EliminateWithoutMarginalize(net, variable) ==
  LET parts == Partition(net.factors, variable, <<>>, <<>>)
      combinedFactor == multiply_factors(parts[1], net.domains)
  IN  IF Len(parts[1]) = 0
      THEN [err |-> NoErr, val |-> net, calls |-> <<>>]
      ELSE [err |-> combinedFactor.err,
            val |-> BayesianNetwork(Append(parts[2], combinedFactor.val), net.domains),
            calls |-> <<"multiply_factors">>]

\* eliminate without the early return of lines 49-50
EliminateWithoutEarlyReturn(net, variable) ==
  LET parts == Partition(net.factors, variable, <<>>, <<>>)
      combinedFactor == multiply_factors(parts[1], net.domains)
      marginalizedFactor == marginalize(combinedFactor.val, variable)
  IN  IF combinedFactor.err # NoErr \/ marginalizedFactor.err # NoErr
      THEN [err |-> "KeyError", val |-> NoNetwork,
            calls |-> <<"multiply_factors", "marginalize">>]
      ELSE [err |-> NoErr,
            val |-> BayesianNetwork(Append(parts[2], marginalizedFactor.val), net.domains),
            calls |-> <<"multiply_factors", "marginalize">>]

\* eliminate; calls lists the factor-algebra calls it made
eliminate(net, variable) ==
  LET parts == Partition(net.factors, variable, <<>>, <<>>)
      factorsWithVar == parts[1]
      factorsWithoutVar == parts[2]
  IN  IF Len(factorsWithVar) = 0
      THEN [err |-> NoErr, val |-> net, calls |-> <<>>]
      ELSE LET combinedFactor == multiply_factors(factorsWithVar, net.domains)
           IN  IF combinedFactor.err # NoErr
               THEN [err |-> combinedFactor.err, val |-> NoNetwork,
                     calls |-> <<"multiply_factors">>]
               ELSE LET marginalizedFactor == marginalize(combinedFactor.val, variable)
                    IN  IF marginalizedFactor.err # NoErr
                        THEN [err |-> marginalizedFactor.err, val |-> NoNetwork,
                              calls |-> <<"multiply_factors", "marginalize">>]
                        ELSE [err |-> NoErr,
                              val |-> BayesianNetwork(
                                        Append(factorsWithoutVar, marginalizedFactor.val),
                                        net.domains),
                              calls |-> <<"multiply_factors", "marginalize">>]

\* ------------------------------------------------------- compute_marginal
\* every order list(bnet.variables) can produce
Perms(S) == {p \in [1..Cardinality(S) -> S] : \A i, j \in 1..Cardinality(S) : p[i] = p[j] => i = j}

RevisedElimOrder(elim_order, queryVars) == SelectSeq(elim_order, LAMBDA v : v \notin queryVars)

RECURSIVE EliminateAll(_, _)
EliminateAll(net, revised_elim_order) ==
  IF revised_elim_order = <<>> THEN Return(net)
  ELSE LET r == eliminate(net, Head(revised_elim_order))
       IN  IF r.err # NoErr THEN Raise(r.err, NoNetwork)
           ELSE EliminateAll(r.val, Tail(revised_elim_order))

\* compute_marginal run to its return under one iteration order of the variable set
compute_marginal(net, queryVars, elim_order) ==
  LET e == EliminateAll(net, RevisedElimOrder(elim_order, queryVars))
  IN  IF e.err # NoErr THEN Raise(e.err, NoFactor)
      ELSE multiply_factors(e.val.factors, e.val.domains)

\* ---------------------------------------------------- compute_conditional
RECURSIVE Gcd(_, _)
Gcd(a, b) == IF b = 0 THEN a ELSE Gcd(b, a % b)

\* prob / evidenceProb, as the fraction in lowest terms
Quotient(a, b) == LET g == Gcd(a, b) IN [num |-> a \div g, den |-> b \div g]

Zero == [num |-> 0, den |-> 1]

\* {**evidence, **event}
MergeEventWins(event, evidence) ==
  [k \in DOMAIN event \cup DOMAIN evidence |->
     IF k \in DOMAIN event THEN event[k] ELSE evidence[k]]

\* {**event, **evidence}
Merge(event, evidence) ==
  [k \in DOMAIN event \cup DOMAIN evidence |->
     IF k \in DOMAIN evidence THEN evidence[k] ELSE event[k]]

\* lines 87 and 90: the entry of a computed marginal at an event
EntryAt(marginal, event) ==
  IF marginal.err # NoErr THEN Raise(marginal.err, 0) ELSE GetItem(marginal.val, event)

\* lines 92-95 without lines 92-93
RatioWithoutGuard(prob, evidenceProb) ==
  IF prob.err # NoErr THEN Raise(prob.err, Zero)
  ELSE IF evidenceProb.err # NoErr THEN Raise(evidenceProb.err, Zero)
  ELSE IF evidenceProb.val = 0 THEN Raise("ZeroDivisionError", Zero)
  ELSE Return(Quotient(prob.val, evidenceProb.val))

\* lines 92-95; an error raised on the way to either entry is the call's outcome
Ratio(prob, evidenceProb) ==
  IF prob.err # NoErr THEN Raise(prob.err, Zero)
  ELSE IF evidenceProb.err # NoErr THEN Raise(evidenceProb.err, Zero)
  ELSE IF evidenceProb.val = 0 THEN Return(Zero)
  ELSE Return(Quotient(prob.val, evidenceProb.val))

compute_conditional(net, event, evidence, elim_order) ==
  LET aAndB == Merge(event, evidence)
      \* the two calls of compute_marginal, lines 86 and 89, in that order
      queries == <<aAndB, evidence>>
      entries == [i \in 1..2 |->
                    EntryAt(compute_marginal(net, DOMAIN queries[i], elim_order), queries[i])]
  IN  Ratio(entries[1], entries[2])

\* ------------------------------------------------------------- the inputs
\* the domain mapping: variable -> ordered, distinct, non-empty labels
Domains == [A |-> <<"x", "X">>, B |-> <<"x", "X">>, C |-> <<"+">>]

AllVars == DOMAIN Domains

\* table entries: zero, one and a larger weight
Values == {0, 1, MaxVal}

Assignments(scope) == Product([i \in 1..Len(scope) |-> Range(Domains[scope[i]])])

\* the fully populated factors over a scope
FullFactors(scope) == {Factor(scope, t) : t \in [Assignments(scope) -> Values]}

\* the factors over a scope with any set of keys present
SparseFactors(scope) ==
  UNION {{Factor(scope, t) : t \in [K -> Values]} : K \in SUBSET Assignments(scope)}

RECURSIVE FactorLists(_, _)
FactorLists(shape, sparse) ==
  IF shape = <<>> THEN {<<>>}
  ELSE {<<f>> \o rest :
          f \in (IF sparse THEN SparseFactors(Head(shape)) ELSE FullFactors(Head(shape))),
          rest \in FactorLists(Tail(shape), sparse)}

NetworksOf(shapes, sparse) ==
  UNION {{BayesianNetwork(fs, Domains) : fs \in FactorLists(shape, sparse)} : shape \in shapes}

\* the scopes of the networks that are built: a prior with a conditional, a chain,
\* and three factors of which two share a variable
PriorShape == << <<"A">>, <<"B", "A">> >>

ChainShape == << <<"B", "A">>, <<"C", "B">> >>

ForkShape == << <<"C">>, <<"A">>, <<"C", "B">> >>

\* the networks of the conditional queries: one joint table, and two unrelated factors
JointShape == << <<"B", "A">> >>

SplitShape == << <<"A">>, <<"C", "B">> >>

\* factor lists handed to the factor algebra, any key may be missing
AlgebraShapes ==
  { << <<"A", "B">> >>,
    << <<"B">>, <<"A", "B">> >>,
    << <<"A">>, <<"C">>, <<"A">> >>,
    << <<"B", "C">>, <<"A">>, <<"C">> >> }

\* an event over one variable
Single(v, label) == [k \in {v} |-> label]

NoEvent == [k \in {} |-> ""]

\* events over at most one variable, labels from that variable's domain
SingleEvents == {NoEvent} \cup UNION {{Single(v, l) : l \in Range(Domains[v])} : v \in AllVars}

\* events over exactly two variables
PairEvents ==
  UNION {{[k \in pair |-> e[k]] : e \in {f \in [pair -> {"x", "X", "+"}] :
                                           \A k \in pair : f[k] \in Range(Domains[k])}} :
           pair \in {P \in SUBSET AllVars : Cardinality(P) = 2}}

\* ------------------------------------------------------------ operations
NoOp == [name |-> "none", var |-> "", queryVars |-> {}, event |-> NoEvent,
         evidence |-> NoEvent, input |-> NoNetwork, calls |-> <<>>]

InitWith(networks, numerics) ==
  /\ numeric \in numerics
  /\ bnet \in networks
  /\ pc = "idle"
  /\ op = NoOp
  /\ cur = NoNetwork
  /\ order = <<>>
  /\ ret = Return(0)

Init == InitWith(NetworksOf({PriorShape, ChainShape, ForkShape}, FALSE), {"int"})

\* ret = eliminate(bnet, variable), called by the holder of a network: on the
\* network that was built, or on the network the call before returned
EliminateCall ==
  /\ pc = "idle"
  /\ op.name \in {"none", "eliminate"}
  /\ ret.err = NoErr
  /\ \E variable \in AllVars :
       LET arg == IF op.name = "eliminate" THEN ret.val ELSE bnet
           r == eliminate(arg, variable)
       IN  /\ op' = [NoOp EXCEPT !.name = "eliminate", !.var = variable,
                                 !.input = arg, !.calls = r.calls]
           /\ ret' = [err |-> r.err, val |-> r.val]
           /\ bnet' = arg
  /\ UNCHANGED <<numeric, pc, cur, order>>

\* compute_marginal, lines 75-76: the elimination order
MarginalCall ==
  /\ pc = "idle"
  /\ op.name = "none"
  /\ \E queryVars \in SUBSET AllVars, elim_order \in Perms(bnet.variables) :
       /\ op' = [NoOp EXCEPT !.name = "compute_marginal", !.queryVars = queryVars,
                             !.input = bnet]
       /\ order' = RevisedElimOrder(elim_order, queryVars)
  /\ cur' = bnet
  /\ pc' = "loop"
  /\ UNCHANGED <<numeric, bnet, ret>>

\* compute_marginal, lines 77-78: one turn of the loop
MarginalStep ==
  /\ pc = "loop"
  /\ order # <<>>
  /\ LET r == eliminate(cur, Head(order))
     IN  /\ op' = [op EXCEPT !.var = Head(order), !.calls = r.calls]
         /\ cur' = r.val
         /\ ret' = IF r.err = NoErr THEN ret ELSE Raise(r.err, NoFactor)
         /\ pc' = IF r.err = NoErr THEN "loop" ELSE "raised"
  /\ order' = Tail(order)
  /\ UNCHANGED <<numeric, bnet>>

\* compute_marginal, line 79
MarginalReturn ==
  /\ pc = "loop"
  /\ order = <<>>
  /\ LET r == multiply_factors(cur.factors, cur.domains)
     IN  /\ ret' = r
         /\ pc' = IF r.err = NoErr THEN "done" ELSE "raised"
  /\ UNCHANGED <<numeric, bnet, op, cur, order>>

Next ==
  \/ EliminateCall
  \/ MarginalCall
  \/ MarginalStep
  \/ MarginalReturn

Spec == Init /\ [][Next]_vars

\* ------------------------------------------------------ float arithmetic
InitFloat == InitWith(NetworksOf({ChainShape}, FALSE), {"int", "float"})

NextFloat ==
  \/ MarginalCall
  \/ MarginalStep
  \/ MarginalReturn

SpecFloat == InitFloat /\ [][NextFloat]_vars

\* --------------------------------------------------- conditional queries
InitConditional == InitWith(NetworksOf({JointShape, SplitShape}, FALSE), {"int"})

ConditionalCall ==
  /\ pc = "idle"
  /\ op.name = "none"
  /\ \E event \in SingleEvents \cup PairEvents, evidence \in SingleEvents,
        elim_order \in Perms(bnet.variables) :
       /\ op' = [NoOp EXCEPT !.name = "compute_conditional", !.event = event,
                             !.evidence = evidence, !.input = bnet]
       /\ ret' = compute_conditional(bnet, event, evidence, elim_order)
       /\ pc' = IF ret'.err = NoErr THEN "done" ELSE "raised"
  /\ UNCHANGED <<numeric, bnet, cur, order>>

NextConditional == ConditionalCall

SpecConditional == InitConditional /\ [][NextConditional]_vars

\* --------------------------------------------------- the factor algebra
InitAlgebra == InitWith(NetworksOf(AlgebraShapes, TRUE), {"int"})

\* multiply_factors(bnet.factors, bnet.domains)
MultiplyCall ==
  /\ pc = "idle"
  /\ op.name = "none"
  /\ op' = [NoOp EXCEPT !.name = "multiply_factors", !.input = bnet]
  /\ ret' = multiply_factors(bnet.factors, bnet.domains)
  /\ pc' = "done"
  /\ UNCHANGED <<numeric, bnet, cur, order>>

\* marginalize(factor, variable) for a factor of the list and a variable of its scope
MarginalizeCall ==
  /\ pc = "idle"
  /\ op.name = "none"
  /\ \E i \in 1..Len(bnet.factors) : \E variable \in Range(bnet.factors[i].variables) :
       /\ op' = [NoOp EXCEPT !.name = "marginalize", !.var = variable,
                             !.input = BayesianNetwork(<<bnet.factors[i]>>, bnet.domains)]
       /\ ret' = marginalize(bnet.factors[i], variable)
  /\ pc' = "done"
  /\ UNCHANGED <<numeric, bnet, cur, order>>

NextAlgebra ==
  \/ MultiplyCall
  \/ MarginalizeCall

SpecAlgebra == InitAlgebra /\ [][NextAlgebra]_vars

\* ------------------------------------------------ reference definitions
Labels == UNION {Range(Domains[v]) : v \in AllVars}

\* the full assignments to a set of variables
FullEvents(V) == {e \in [V -> Labels] : \A v \in V : e[v] \in Range(Domains[v])}

KeyOf(f, e) == [i \in 1..Len(f.variables) |-> e[f.variables[i]]]

\* the product of every factor's entry at a full assignment e
RECURSIVE JointAt(_, _)
JointAt(factors, e) ==
  IF factors = <<>> THEN 1
  ELSE Head(factors).values[KeyOf(Head(factors), e)] * JointAt(Tail(factors), e)

\* the sum of the values of a function
RECURSIVE SumOf(_)
SumOf(f) ==
  IF DOMAIN f = {} THEN 0
  ELSE LET x == CHOOSE y \in DOMAIN f : TRUE
       IN  f[x] + SumOf([y \in DOMAIN f \ {x} |-> f[y]])

\* the marginal of the full joint at q: the other variables summed out
BruteForceMarginal(net, q) ==
  LET term(e) == JointAt(net.factors,
                         [v \in net.variables |-> IF v \in DOMAIN q THEN q[v] ELSE e[v]])
  IN  SumOf([e \in FullEvents(net.variables \ DOMAIN q) |-> term(e)])

MarginalReturned == pc = "done" /\ op.name = "compute_marginal"

\* C1: for a fully populated network and a query set Q of its variables, the
\* Factor compute_marginal returns holds, at every full assignment q to Q, the sum
\* over the assignments to the non-query variables of the product of all factors
C1_MarginalIsBruteForce ==
  (MarginalReturned /\ op.queryVars \subseteq op.input.variables) =>
    /\ ret.err = NoErr
    /\ \A q \in FullEvents(op.queryVars) :
         LET r == GetItem(ret.val, q)
         IN  r.err = NoErr /\ r.val = BruteForceMarginal(op.input, q)

\* a chain of three variables queried at one of them: two variables were summed
\* out and some entry of the result is a sum of several products
C1_Witness ==
  /\ MarginalReturned
  /\ op.input.variables = AllVars
  /\ Cardinality(op.queryVars) = 1
  /\ \E k \in DOMAIN ret.val.values : ret.val.values[k] > MaxVal * MaxVal

\* C3 as stated: the returned Factor's scope is exactly the query set
C3_ScopeIsQuery == MarginalReturned => Range(ret.val.variables) = op.queryVars

\* one turn of the loop takes exactly the eliminated variable out of the variable set
C3_StepRemoves ==
  (pc = "loop" /\ order # <<>>) =>
    (cur'.variables = cur.variables \ {Head(order)} \/ cur' = cur)

\* C3, amended: each eliminate step of compute_marginal removes exactly the
\* eliminated variable from the network's variable set (or changes nothing), at the
\* end of the loop no factor mentions a non-query variable, and the scope of the
\* returned Factor is, without repetition, the query set restricted to the
\* network's variables (the query set itself when the network has all of them)
C3_ScopeIsQueryInNetwork ==
  /\ [][C3_StepRemoves]_vars
  /\ []((pc = "loop" /\ order = <<>>) =>
          \A i \in 1..Len(cur.factors) :
            Range(cur.factors[i].variables) \subseteq op.queryVars)
  /\ [](MarginalReturned =>
          /\ Range(ret.val.variables) = op.queryVars \cap op.input.variables
          /\ Len(ret.val.variables) = Cardinality(Range(ret.val.variables)))

\* a query over a variable of the network and one the network does not have,
\* answered after an elimination
C3_Witness ==
  /\ MarginalReturned
  /\ op.queryVars \cap op.input.variables # {}
  /\ ~(op.queryVars \subseteq op.input.variables)
  /\ op.calls # <<>>

Mentions(f, v) == v \in Range(f.variables)

EliminateReturned == pc = "idle" /\ op.name = "eliminate"

InputMentions == \E i \in 1..Len(op.input.factors) : Mentions(op.input.factors[i], op.var)

\* C6: eliminate(network, v) with v in no factor's scope returns a network with the
\* identical factor list and the same domains, and calls neither multiply_factors
\* nor marginalize
C6_EliminateNoOp ==
  (EliminateReturned /\ ~InputMentions) =>
    /\ ret.err = NoErr
    /\ ret.val.factors = op.input.factors
    /\ ret.val.domains = op.input.domains
    /\ op.calls = <<>>

\* a variable that was already eliminated is eliminated again
C6_Witness ==
  /\ EliminateReturned
  /\ ~InputMentions
  /\ op.var \notin op.input.variables
  /\ Len(op.input.factors) >= 2

\* C7: eliminate(network, v) with v in some factor's scope returns a network whose
\* factor list is the factors without v, in their order, then one new factor: the
\* product of the factors with v, summed over v; same domains, input untouched
C7_EliminateFrame ==
  (EliminateReturned /\ InputMentions) =>
    LET old == op.input.factors
        without == SelectSeq(old, LAMBDA f : ~Mentions(f, op.var))
        with == SelectSeq(old, LAMBDA f : Mentions(f, op.var))
        new == ret.val.factors
        last == new[Len(new)]
    IN  /\ ret.err = NoErr
        /\ Len(new) = Len(without) + 1
        /\ SubSeq(new, 1, Len(without)) = without
        /\ ~Mentions(last, op.var)
        /\ Range(last.variables) = ScopeUnion({}, with) \ {op.var}
        /\ \A e \in FullEvents(Range(last.variables)) :
             GetItem(last, e) =
               Return(BruteForceMarginal(BayesianNetwork(with, op.input.domains), e))
        /\ ret.val.domains = op.input.domains
        /\ bnet = op.input

\* two factors without the variable stay in order before the new factor
C7_Witness ==
  /\ EliminateReturned
  /\ InputMentions
  /\ Len(SelectSeq(op.input.factors, LAMBDA f : ~Mentions(f, op.var))) >= 2
  /\ Len(ret.val.factors) = 3
  /\ ret.val.factors[1] # ret.val.factors[2]

FullyPopulated(f) == DOMAIN f.values = Assignments(f.variables)

NetworkFull(net) == \A i \in 1..Len(net.factors) : FullyPopulated(net.factors[i])

\* C10: from a network of fully populated factors, every network reached by
\* eliminate calls has fully populated factors again, and no eliminate and no
\* final multiply of compute_marginal raises
C10_StaysFullyPopulated ==
  /\ pc # "raised"
  /\ ret.err = NoErr
  /\ NetworkFull(bnet)
  /\ NetworkFull(cur)
  /\ (op.name = "eliminate" => NetworkFull(ret.val))
  /\ (MarginalReturned => FullyPopulated(ret.val))

\* an eliminate that multiplies a factor an earlier eliminate produced
C10_Witness ==
  /\ EliminateReturned
  /\ op.calls # <<>>
  /\ Cardinality(op.input.variables) = 1
  /\ NetworkFull(ret.val)

\* the Factor compute_marginal returns when the non-query variables are met in order o
UnderOrder(o) == compute_marginal(op.input, op.queryVars, o)

NonQueryOrders == Perms(op.input.variables \ op.queryVars)

QueryEvents == FullEvents(op.queryVars \cap op.input.variables)

\* C2 as stated: every order of the non-query variables gives the same value table
C2_AnyOrderSameTable ==
  MarginalReturned =>
    \A o \in NonQueryOrders :
      LET r == UnderOrder(o)
      IN  r.err = NoErr /\ \A q \in QueryEvents : GetItem(r.val, q) = GetItem(ret.val, q)

\* C2, amended: every order of the non-query variables gives a Factor over the same
\* variables with a value at every assignment, and the same value at every
\* assignment when the sums and products of table values are exact (integer
\* values); with float values the values can differ by rounding
C2_AnyOrderSameTableWhenExact ==
  MarginalReturned =>
    \A o \in NonQueryOrders :
      LET r == UnderOrder(o)
      IN  /\ r.err = NoErr
          /\ Range(r.val.variables) = Range(ret.val.variables)
          /\ \A q \in QueryEvents :
               LET a == GetItem(r.val, q)
                   b == GetItem(ret.val, q)
               IN  a.err = NoErr /\ b.err = NoErr /\ (numeric = "int" => a = b)

\* exact arithmetic, two variables summed out of a chain in either order, and a
\* result entry that is a sum of several products
C2_Witness ==
  /\ MarginalReturned
  /\ numeric = "int"
  /\ op.input.variables = AllVars
  /\ Cardinality(op.queryVars) = 1
  /\ \E k \in DOMAIN ret.val.values : ret.val.values[k] > MaxVal * MaxVal

ConditionalReturned == op.name = "compute_conditional"

\* the marginal probability of the evidence, from the full joint
EvidenceProb == BruteForceMarginal(op.input, op.evidence)

Collision == \E k \in DOMAIN op.event \cap DOMAIN op.evidence : op.event[k] # op.evidence[k]

\* the combined assignment with the evidence's value on every shared variable
EvidenceOverEvent ==
  [k \in DOMAIN op.event \cup DOMAIN op.evidence |->
     IF k \in DOMAIN op.evidence THEN op.evidence[k] ELSE op.event[k]]

\* the combined assignment with the event's value on every shared variable
EventOverEvidence ==
  [k \in DOMAIN op.event \cup DOMAIN op.evidence |->
     IF k \in DOMAIN op.event THEN op.event[k] ELSE op.evidence[k]]

\* C5: when event and evidence give one variable different values, the joint
\* probability compute_conditional divides is that of the assignment carrying the
\* evidence's value
C5_EvidenceWins ==
  (ConditionalReturned /\ Collision) =>
    /\ ret.err = NoErr
    /\ EvidenceProb # 0 =>
         ret.val.num * EvidenceProb =
           ret.val.den * BruteForceMarginal(op.input, EvidenceOverEvent)

\* a collision where the two precedences give different joint probabilities
C5_Witness ==
  /\ ConditionalReturned
  /\ Collision
  /\ EvidenceProb # 0
  /\ BruteForceMarginal(op.input, EvidenceOverEvent) #
       BruteForceMarginal(op.input, EventOverEvidence)
  /\ ret.err = NoErr

MarginalizeReturned == op.name = "marginalize"

\* the Factor handed to marginalize, and the position of the variable in its scope
TheFactor == op.input.factors[1]

VarPos == CHOOSE i \in 1..Len(TheFactor.variables) : TheFactor.variables[i] = op.var

\* the values found at position i of the key tuples
SeenAt(i) == {k[i] : k \in DOMAIN TheFactor.values}

\* a tuple without its entry at position i
DropAt(k, i) == [j \in 1..(Len(k) - 1) |-> IF j < i THEN k[j] ELSE k[j + 1]]

\* the sum of the entries whose key is k once the variable's position is dropped
SumOverVariable(k) ==
  SumOf([j \in {m \in DOMAIN TheFactor.values : DropAt(m, VarPos) = k} |->
            TheFactor.values[j]])

\* every combination of the values seen at each position is a key
KeysFormGrid ==
  \A t \in Product([i \in 1..Len(TheFactor.variables) |-> SeenAt(i)]) :
    t \in DOMAIN TheFactor.values

MarginalizedAsStated ==
  /\ ret.err = NoErr
  /\ ret.val.variables = DropAt(TheFactor.variables, VarPos)
  /\ DOMAIN ret.val.values =
       Product(DropAt([i \in 1..Len(TheFactor.variables) |-> SeenAt(i)], VarPos))
  /\ \A k \in DOMAIN ret.val.values : ret.val.values[k] = SumOverVariable(k)

\* C8 as stated: for every Factor, sparse or not, marginalize returns without
\* failing the Factor over the scope minus v whose values are the sums over the
\* values v attains in the key tuples
C8_MarginalizeNeverFails == MarginalizeReturned => MarginalizedAsStated

\* C8, amended: marginalize returns that Factor for every Factor, sparse or not,
\* that has a key for every combination of the values seen at each position of
\* its keys; for any other sparse Factor the lookup of a missing combination
\* raises KeyError and no Factor is returned
C8_MarginalizeOnGrid ==
  MarginalizeReturned =>
    IF KeysFormGrid THEN MarginalizedAsStated ELSE ret.err = "KeyError"

\* a sparse Factor whose keys form a grid, with two values of v summed
C8_Witness ==
  /\ MarginalizeReturned
  /\ ~FullyPopulated(TheFactor)
  /\ Cardinality(SeenAt(VarPos)) = 2
  /\ Len(TheFactor.variables) = 2
  /\ ret.err = NoErr
  /\ \E k \in DOMAIN ret.val.values : ret.val.values[k] > MaxVal

MultiplyReturned == op.name = "multiply_factors"

RECURSIVE Flatten(_)
Flatten(factors) ==
  IF factors = <<>> THEN <<>> ELSE Head(factors).variables \o Flatten(Tail(factors))

AllScopes == Flatten(op.input.factors)

FirstPos(v) == CHOOSE i \in 1..Len(AllScopes) :
                 AllScopes[i] = v /\ \A j \in 1..(i - 1) : AllScopes[j] # v

\* every input factor has an entry for its part of every joint assignment
Supported ==
  \A e \in FullEvents(Range(AllScopes)) :
    \A i \in 1..Len(op.input.factors) :
      KeyOf(op.input.factors[i], e) \in DOMAIN op.input.factors[i].values

\* C9: multiply_factors returns the Factor whose scope is the union of the input
\* scopes in first-appearance order without duplicates, with one key for every
\* element of the cartesian product of the domains of that scope, each value the
\* product of the input factors' values at their restriction of the assignment;
\* when an input factor lacks an entry for some joint assignment it returns nothing
C9_MultiplyIsJointProduct ==
  MultiplyReturned =>
    IF Supported
    THEN LET scope == ret.val.variables
         IN  /\ ret.err = NoErr
             /\ Range(scope) = Range(AllScopes)
             /\ \A i, j \in 1..Len(scope) : i < j => FirstPos(scope[i]) < FirstPos(scope[j])
             /\ DOMAIN ret.val.values = Assignments(scope)
             /\ \A k \in DOMAIN ret.val.values :
                  ret.val.values[k] =
                    JointAt(op.input.factors,
                            [v \in Range(scope) |->
                               k[CHOOSE i \in 1..Len(scope) : scope[i] = v]])
    ELSE ret.err = "KeyError"

\* factors that share a variable, all supported, and an entry that is a product
C9_Witness ==
  /\ MultiplyReturned
  /\ Supported
  /\ ret.err = NoErr
  /\ Len(ret.val.variables) < Len(AllScopes)
  /\ Len(ret.val.variables) >= 2
  /\ \E k \in DOMAIN ret.val.values : ret.val.values[k] = MaxVal * MaxVal

====
